---- MODULE Spec2Model ----
(***************************************************************************)
(* Model of main.py of CarND-Semantic-Segmentation: the decoder builder    *)
(* `layers` (static shapes of the graph it constructs), the numpy batch    *)
(* transform `augment_data`, and the training loop `train_nn`.             *)
(*                                                                         *)
(* An array (numpy ndarray) is a record [shape, data]: shape is the tuple  *)
(* of axis lengths, data the nested sequences of its elements, outermost   *)
(* axis first.  Indices are 1-based here and 0-based in the source.        *)
(***************************************************************************)
EXTENDS Integers, Sequences, FiniteSets, TLC

VARIABLES
    (* augment_data and the flips it is made of *)
    apc,            \* position of the augmentation run
    images,         \* argument `images` of augment_data
    gt_images,      \* argument `gt_images` of augment_data
    aug_images,     \* first component of augment_data's result
    aug_gt_images,  \* second component of augment_data's result
    reflipped,      \* hf_images with the width axis reversed once more
    (* layers *)
    lpc,            \* position of the graph construction
    vgg_layer3_out, \* static shape of the finest feature map
    vgg_layer4_out, \* static shape of the mid feature map
    vgg_layer7_out, \* static shape of the coarsest feature map
    num_classes,    \* argument num_classes of layers
    graph,          \* name -> static shape of every tensor layers has built
    (* train_nn *)
    pc,             \* position of train_nn
    epochs,         \* argument epochs
    nbatches,       \* number of batches every sequence of the batch source yields
    epoch,          \* loop variable of the outer for
    b,              \* loop variable of enumerate(batches)
    batches,        \* the generator in hand: [id, next, left]
    seed,           \* the pair pulled from the generator, with its tag
    feed,           \* the feed_dict of the latest sess.run call
    loss_val,       \* the loss the latest sess.run returned
    requests,       \* calls of get_batches_fn so far
    pulls,          \* batches pulled from generators so far
    attempts,       \* sess.run calls started so far
    steps,          \* sess.run calls completed so far (optimizer steps)
    stepped,        \* tags [gen, idx] of the batches stepped, in order
    log,            \* the progress lines printed, in order
    failed          \* a sess.run call has raised

augvars == <<apc, images, gt_images, aug_images, aug_gt_images, reflipped>>
layervars == <<lpc, vgg_layer3_out, vgg_layer4_out, vgg_layer7_out, num_classes, graph>>
trainvars == <<pc, epochs, nbatches, epoch, b, batches, seed, feed, loss_val,
               requests, pulls, attempts, steps, stepped, log, failed>>
vars == <<augvars, layervars, trainvars>>

(***************************************************************************)
(* Bounds of the model.                                                    *)
(***************************************************************************)
MaxN == 2
MaxH == 2
MaxW == 2
MaxC == 2
MaxCells == 6
PixelValues == {0, 1}

NoArray == [shape |-> <<>>, data |-> <<>>]

(***************************************************************************)
(* numpy: arrays, slicing with a negative step, concatenation.             *)
(***************************************************************************)
Ndim(a) == Len(a.shape)

\* s[::-1] on one axis: the same elements in reverse order.
Reverse(s) == [i \in 1..Len(s) |-> s[Len(s) + 1 - i]]

\* All 4-D arrays of shape [n, h, w, c] over PixelValues.
Arrays4(n, h, w, c) ==
    { [shape |-> <<n, h, w, c>>, data |-> d] :
        d \in [1..n -> [1..h -> [1..w -> [1..c -> PixelValues]]]] }

\* a[:, :, :-1, :], the slice a dropped colon turns the flip into.
DropLastColumn(a) ==
    [shape |-> <<a.shape[1], a.shape[2],
                 IF a.shape[3] > 0 THEN a.shape[3] - 1 ELSE 0, a.shape[4]>>,
     data |-> [n \in 1..Len(a.data) |->
                 [h \in 1..Len(a.data[n]) |->
                    SubSeq(a.data[n][h], 1, Len(a.data[n][h]) - 1)]]]

\* a[:, :, ::-1, :]
HFlip(a) ==
    [shape |-> a.shape,
     data |-> [n \in 1..Len(a.data) |->
                 [h \in 1..Len(a.data[n]) |-> Reverse(a.data[n][h])]]]

\* a[:, ::-1, :, :]
VFlip(a) ==
    [shape |-> a.shape,
     data |-> [n \in 1..Len(a.data) |-> Reverse(a.data[n])]]

\* np.concatenate([x, y, z], axis=0) of arrays that agree on the other axes.
Concatenate0(x, y, z) ==
    [shape |-> <<x.shape[1] + y.shape[1] + z.shape[1]>> \o Tail(x.shape),
     data |-> x.data \o y.data \o z.data]

\* augment_data without the vertical flip, as its docstring describes it.
augment_data_hf_only(imgs, gts) ==
    <<[shape |-> <<2 * imgs.shape[1]>> \o Tail(imgs.shape),
       data |-> imgs.data \o HFlip(imgs).data],
      [shape |-> <<2 * gts.shape[1]>> \o Tail(gts.shape),
       data |-> gts.data \o HFlip(gts).data]>>

\* augment_data with the two flipped copies of the images in each other's place.
augment_data_swapped(imgs, gts) ==
    <<Concatenate0(HFlip(imgs), imgs, VFlip(imgs)),
      Concatenate0(VFlip(gts), gts, HFlip(gts))>>

augment_data(imgs, gts) ==
    LET hf_images == HFlip(imgs)
        hf_gt_images == HFlip(gts)
        vf_images == VFlip(imgs)
        vf_gt_images == VFlip(gts)
    IN  <<Concatenate0(vf_images, imgs, hf_images),
          Concatenate0(vf_gt_images, gts, hf_gt_images)>>

\* Rows lo..hi (1-based, inclusive) of the batch axis: a[lo-1:hi].
BatchSlice(a, lo, hi) ==
    [shape |-> <<hi - lo + 1>> \o Tail(a.shape), data |-> SubSeq(a.data, lo, hi)]

(***************************************************************************)
(* Idle values of the parts a specification does not exercise.             *)
(***************************************************************************)
LayersIdle ==
    /\ lpc = "idle"
    /\ vgg_layer3_out = <<>>
    /\ vgg_layer4_out = <<>>
    /\ vgg_layer7_out = <<>>
    /\ num_classes = 0
    /\ graph = <<>>

TrainIdle ==
    /\ pc = "idle"
    /\ epochs = 0
    /\ nbatches = 0
    /\ epoch = 0
    /\ b = 0
    /\ batches = <<>>
    /\ seed = <<>>
    /\ feed = <<>>
    /\ loss_val = 0
    /\ requests = 0
    /\ pulls = 0
    /\ attempts = 0
    /\ steps = 0
    /\ stepped = <<>>
    /\ log = <<>>
    /\ failed = FALSE

AugIdle ==
    /\ apc = "idle"
    /\ images = NoArray
    /\ gt_images = NoArray
    /\ aug_images = NoArray
    /\ aug_gt_images = NoArray
    /\ reflipped = NoArray

(***************************************************************************)
(* augment_data on every pair of equally shaped batches within the bounds. *)
(***************************************************************************)
AugShapes ==
    { s \in (0..MaxN) \X (1..MaxH) \X (1..MaxW) \X (1..MaxC) :
        s[1] * s[2] * s[3] * s[4] <= MaxCells }

InitAug ==
    /\ apc = "call"
    /\ \E s \in AugShapes :
         /\ images \in Arrays4(s[1], s[2], s[3], s[4])
         /\ gt_images \in Arrays4(s[1], s[2], s[3], s[4])
    /\ aug_images = NoArray
    /\ aug_gt_images = NoArray
    /\ reflipped = NoArray
    /\ LayersIdle
    /\ TrainIdle

\* The call augment_data(images, gt_images).
Augment ==
    /\ apc = "call"
    /\ LET r == augment_data(images, gt_images)
       IN  /\ aug_images' = r[1]
           /\ aug_gt_images' = r[2]
    /\ apc' = "augmented"
    /\ UNCHANGED <<images, gt_images, reflipped, layervars, trainvars>>

\* hf_images, the last third of the result, flipped horizontally again.
FlipBack ==
    /\ apc = "augmented"
    /\ LET n == images.shape[1]
       IN  reflipped' = HFlip(BatchSlice(aug_images, 2 * n + 1, 3 * n))
    /\ apc' = "reflipped"
    /\ UNCHANGED <<images, gt_images, aug_images, aug_gt_images, layervars, trainvars>>

NextAug == Augment \/ FlipBack

SpecAug == InitAug /\ [][NextAug]_vars

(***************************************************************************)
(* tf.layers shape inference: the static shape [batch, height, width,      *)
(* channels] of what conv2d, conv2d_transpose and tf.add build.            *)
(***************************************************************************)
MaxBatch == 2
MaxH7 == 2
MaxW7 == 1
MaxClasses == 2

\* Length of a convolution's output along one spatial axis.
conv_output_length(input_length, filter_size, padding, stride) ==
    LET output_length == IF padding = "SAME" THEN input_length
                         ELSE input_length - filter_size + 1
    IN  (output_length + stride - 1) \div stride

\* Length of a transposed convolution's output along one spatial axis.
deconv_output_length(input_length, filter_size, padding, stride) ==
    IF padding = "SAME" THEN input_length * stride
    ELSE input_length * stride
           + (IF filter_size > stride THEN filter_size - stride ELSE 0)

\* conv2d that leaves the channel count of its input in place.
conv2d_keep_channels(inputs, filters, kernel_size, strides, padding) ==
    <<inputs[1],
      conv_output_length(inputs[2], kernel_size[1], padding, strides[1]),
      conv_output_length(inputs[3], kernel_size[2], padding, strides[2]),
      inputs[4]>>

conv2d(inputs, filters, kernel_size, strides, padding) ==
    <<inputs[1],
      conv_output_length(inputs[2], kernel_size[1], padding, strides[1]),
      conv_output_length(inputs[3], kernel_size[2], padding, strides[2]),
      filters>>

\* conv2d_transpose that pads as "VALID" whatever padding it is given.
conv2d_transpose_valid(inputs, filters, kernel_size, strides, padding) ==
    <<inputs[1],
      deconv_output_length(inputs[2], kernel_size[1], "VALID", strides[1]),
      deconv_output_length(inputs[3], kernel_size[2], "VALID", strides[2]),
      filters>>

conv2d_transpose(inputs, filters, kernel_size, strides, padding) ==
    <<inputs[1],
      deconv_output_length(inputs[2], kernel_size[1], padding, strides[1]),
      deconv_output_length(inputs[3], kernel_size[2], padding, strides[2]),
      filters>>

\* tf.add broadcasts: two axis lengths are compatible when equal or when one is 1.
BroadcastOk(x, y) ==
    \A i \in 1..4 : x[i] = y[i] \/ x[i] = 1 \/ y[i] = 1

add(x, y) == [i \in 1..4 |-> IF x[i] = 1 THEN y[i] ELSE x[i]]

NotBuilt == <<>>

\* The tensors layers builds, by name; raised when a fusion's shapes are
\* incompatible, and then nothing after that fusion is built.
layers(layer3_out, layer4_out, layer7_out, classes) ==
    LET layer3_fcn == conv2d(layer3_out, classes, <<1, 1>>, <<1, 1>>, "SAME")
        layer4_fcn == conv2d(layer4_out, classes, <<1, 1>>, <<1, 1>>, "SAME")
        layer7_fcn == conv2d(layer7_out, classes, <<1, 1>>, <<1, 1>>, "SAME")
        layer7_up == conv2d_transpose(layer7_fcn, classes, <<4, 4>>, <<2, 2>>, "SAME")
        ok4 == BroadcastOk(layer4_fcn, layer7_up)
        layer4_skip == add(layer4_fcn, layer7_up)
        layer4_up == conv2d_transpose(layer4_skip, classes, <<4, 4>>, <<2, 2>>, "SAME")
        ok3 == ok4 /\ BroadcastOk(layer3_fcn, layer4_up)
        layer3_skip == add(layer3_fcn, layer4_up)
        class_heatmap ==
            conv2d_transpose(layer3_skip, classes, <<16, 16>>, <<8, 8>>, "SAME")
    IN  [raised |-> ~ok3,
         layer3_fcn |-> layer3_fcn,
         layer4_fcn |-> layer4_fcn,
         layer7_fcn |-> layer7_fcn,
         layer7_up |-> layer7_up,
         layer4_skip |-> IF ok4 THEN layer4_skip ELSE NotBuilt,
         layer4_up |-> IF ok4 THEN layer4_up ELSE NotBuilt,
         layer3_skip |-> IF ok3 THEN layer3_skip ELSE NotBuilt,
         class_heatmap |-> IF ok3 THEN class_heatmap ELSE NotBuilt]

\* The feature maps of the backbone for one 160x576 image.
KittiFeatureMaps == <<<<1, 20, 72, 256>>, <<1, 10, 36, 512>>, <<1, 5, 18, 4096>>>>

\* Triples <<layer3, layer4, layer7>> of one batch size: every spatial size of
\* layer4 up to twice, and of layer3 up to four times, the largest layer7.
FeatureMapTriples ==
    { <<<<n, s[5], s[6], KittiFeatureMaps[1][4]>>,
        <<n, s[3], s[4], KittiFeatureMaps[2][4]>>,
        <<n, s[1], s[2], KittiFeatureMaps[3][4]>>>> :
        n \in 1..MaxBatch,
        s \in (1..MaxH7) \X (1..MaxW7) \X (1..2 * MaxH7) \X (1..2 * MaxW7)
                \X (1..4 * MaxH7) \X (1..4 * MaxW7) }

InitLayers ==
    /\ lpc = "call"
    /\ \E t \in FeatureMapTriples \cup {KittiFeatureMaps} :
         /\ vgg_layer3_out = t[1]
         /\ vgg_layer4_out = t[2]
         /\ vgg_layer7_out = t[3]
    /\ num_classes \in 1..MaxClasses
    /\ graph = <<>>
    /\ AugIdle
    /\ TrainIdle

\* layers(...) returns the heat-map.
BuildLayers ==
    /\ lpc = "call"
    /\ LET g == layers(vgg_layer3_out, vgg_layer4_out, vgg_layer7_out, num_classes)
       IN  /\ ~g.raised
           /\ graph' = g
    /\ lpc' = "built"
    /\ UNCHANGED <<vgg_layer3_out, vgg_layer4_out, vgg_layer7_out, num_classes,
                   augvars, trainvars>>

\* layers(...) raises at a fusion of incompatible shapes.
BuildLayersRaises ==
    /\ lpc = "call"
    /\ LET g == layers(vgg_layer3_out, vgg_layer4_out, vgg_layer7_out, num_classes)
       IN  /\ g.raised
           /\ graph' = g
    /\ lpc' = "raised"
    /\ UNCHANGED <<vgg_layer3_out, vgg_layer4_out, vgg_layer7_out, num_classes,
                   augvars, trainvars>>

NextLayers == BuildLayers \/ BuildLayersRaises

SpecLayers == InitLayers /\ [][NextLayers]_vars

(***************************************************************************)
(* train_nn.  The batch source and the session are the caller's: a call of *)
(* get_batches_fn gives a generator that yields nbatches pairs, each       *)
(* produced when it is pulled; a sess.run call returns a loss or raises.   *)
(***************************************************************************)
MaxEpochs == 2
MaxBatches == 11
LossValues == {0, 1}

\* keep_prob: 0.5 and learning_rate: 1e-4 of the feed_dict, as fractions.
KeepProb == [num |-> 1, den |-> 2]
LearningRate == [num |-> 1, den |-> 10000]

\* np.arange(base, base + n*h*w*c).reshape([n, h, w, c])
Arange4(n, h, w, c, base) ==
    [shape |-> <<n, h, w, c>>,
     data |-> [i \in 1..n |-> [j \in 1..h |-> [k \in 1..w |-> [l \in 1..c |->
                 base + (((i - 1) * h + (j - 1)) * w + (k - 1)) * c + (l - 1)]]]]]

\* np.arange(base, base + r*c).reshape([r, c])
Arange2(r, c, base) ==
    [shape |-> <<r, c>>,
     data |-> [i \in 1..r |-> [j \in 1..c |-> base + (i - 1) * c + (j - 1)]]]

\* The pairs a generator may yield: image/label minibatches (4-D) and the
\* 2-D stand-in pair of the loop's unit test.
SeedPairs ==
    { <<Arange4(1, 2, 2, 1, 0), Arange4(1, 2, 2, 1, 4)>>,
      <<Arange4(2, 1, 2, 1, 0), Arange4(2, 1, 2, 1, 4)>>,
      <<Arange2(3, 3, 0), Arange2(3, 3, 9)>> }

NoGenerator == [id |-> 0, next |-> 0, left |-> 0]
NoSeed == [tag |-> [gen |-> 0, idx |-> 0], images |-> NoArray, gt_images |-> NoArray]
NoFeed == [input_image |-> NoArray, correct_label |-> NoArray,
           keep_prob |-> [num |-> 0, den |-> 1],
           learning_rate |-> [num |-> 0, den |-> 1]]

\* The branch on ndim with the augmentation left out.
train_inputs_unaugmented(seed_images, seed_gt_images) ==
    <<seed_images, seed_gt_images>>

\* The pair train_nn feeds for a pulled pair.
train_inputs(seed_images, seed_gt_images) ==
    IF Ndim(seed_images) = 4
    THEN augment_data(seed_images, seed_gt_images)
    ELSE <<seed_images, seed_gt_images>>

\* The feed_dict of the sess.run call for the pulled pair.
feed_dict(s) ==
    LET fed == train_inputs(s.images, s.gt_images)
    IN  [input_image |-> fed[1],
         correct_label |-> fed[2],
         keep_prob |-> KeepProb,
         learning_rate |-> LearningRate]

InitTrain ==
    /\ pc = "for_epoch"
    /\ epochs \in 0..MaxEpochs
    /\ nbatches \in 0..MaxBatches
    /\ epoch = 0
    /\ b = 0
    /\ batches = NoGenerator
    /\ seed = NoSeed
    /\ feed = NoFeed
    /\ loss_val = 0
    /\ requests = 0
    /\ pulls = 0
    /\ attempts = 0
    /\ steps = 0
    /\ stepped = <<>>
    /\ log = <<>>
    /\ failed = FALSE
    /\ AugIdle
    /\ LayersIdle

\* A request that hands back the generator already in hand, when there is one.
GetBatchesReused ==
    /\ pc = "for_epoch"
    /\ epoch < epochs
    /\ IF requests = 0
       THEN /\ batches' = [id |-> 1, next |-> 0, left |-> nbatches]
            /\ requests' = 1
       ELSE UNCHANGED <<batches, requests>>
    /\ b' = 0
    /\ pc' = "for_batch"
    /\ UNCHANGED <<epochs, nbatches, epoch, seed, feed, loss_val, pulls, attempts,
                   steps, stepped, log, failed, augvars, layervars>>

\* for epoch in range(epochs): batches = get_batches_fn(batch_size); enumerate
\* starts at 0.  Between pulls b holds the index enumerate gives next.
GetBatches ==
    /\ pc = "for_epoch"
    /\ epoch < epochs
    /\ batches' = [id |-> requests + 1, next |-> 0, left |-> nbatches]
    /\ requests' = requests + 1
    /\ b' = 0
    /\ pc' = "for_batch"
    /\ UNCHANGED <<epochs, nbatches, epoch, seed, feed, loss_val, pulls, attempts,
                   steps, stepped, log, failed, augvars, layervars>>

\* range(epochs) is exhausted: train_nn returns.
Return ==
    /\ pc = "for_epoch"
    /\ epoch >= epochs
    /\ pc' = "done"
    /\ UNCHANGED <<epochs, nbatches, epoch, b, batches, seed, feed, loss_val,
                   requests, pulls, attempts, steps, stepped, log, failed,
                   augvars, layervars>>

\* The inner for pulls the next pair; the generator produces it now.
PullBatch ==
    /\ pc = "for_batch"
    /\ batches.left > 0
    /\ \E p \in SeedPairs :
         seed' = [tag |-> [gen |-> batches.id, idx |-> batches.next],
                  images |-> p[1], gt_images |-> p[2]]
    /\ batches' = [batches EXCEPT !.next = @ + 1, !.left = @ - 1]
    /\ pulls' = pulls + 1
    /\ pc' = "run"
    /\ UNCHANGED <<epochs, nbatches, epoch, b, feed, loss_val, requests, attempts,
                   steps, stepped, log, failed, augvars, layervars>>

\* The generator is exhausted: the inner for ends, the outer one goes on.
EndOfBatches ==
    /\ pc = "for_batch"
    /\ batches.left = 0
    /\ epoch' = epoch + 1
    /\ pc' = "for_epoch"
    /\ UNCHANGED <<epochs, nbatches, b, batches, seed, feed, loss_val, requests,
                   pulls, attempts, steps, stepped, log, failed, augvars, layervars>>

\* One optimizer step per fed sample: three for an augmented pair.
RunStepPerCopy ==
    /\ pc = "run"
    /\ feed' = feed_dict(seed)
    /\ attempts' = attempts + 1
    /\ steps' = steps + (IF Ndim(seed.images) = 4 THEN 3 ELSE 1)
    /\ stepped' = Append(stepped, seed.tag)
    /\ loss_val' \in LossValues
    /\ pc' = "print"
    /\ UNCHANGED <<epochs, nbatches, epoch, b, batches, seed, requests, pulls,
                   log, failed, augvars, layervars>>

\* sess.run([train_op, cross_entropy_loss], feed_dict) returns: one optimizer step.
RunStep ==
    /\ pc = "run"
    /\ feed' = feed_dict(seed)
    /\ attempts' = attempts + 1
    /\ steps' = steps + 1
    /\ stepped' = Append(stepped, seed.tag)
    /\ loss_val' \in LossValues
    /\ pc' = "print"
    /\ UNCHANGED <<epochs, nbatches, epoch, b, batches, seed, requests, pulls,
                   log, failed, augvars, layervars>>

\* A failure of sess.run caught around the call, the loop going on.
RunRaisesSwallowed ==
    /\ pc = "run"
    /\ feed' = feed_dict(seed)
    /\ attempts' = attempts + 1
    /\ failed' = TRUE
    /\ pc' = "print"
    /\ UNCHANGED <<epochs, nbatches, epoch, b, batches, seed, loss_val, requests,
                   pulls, steps, stepped, log, augvars, layervars>>

\* sess.run raises: nothing in train_nn catches it, so train_nn ends here.
RunRaises ==
    /\ pc = "run"
    /\ feed' = feed_dict(seed)
    /\ attempts' = attempts + 1
    /\ failed' = TRUE
    /\ pc' = "raised"
    /\ UNCHANGED <<epochs, nbatches, epoch, b, batches, seed, loss_val, requests,
                   pulls, steps, stepped, log, augvars, layervars>>

\* The progress line printed for every batch, whatever its index.
PrintEveryBatch ==
    /\ pc = "print"
    /\ log' = Append(log, [epoch |-> epoch, b |-> b, loss |-> loss_val])
    /\ b' = b + 1
    /\ pc' = "for_batch"
    /\ UNCHANGED <<epochs, nbatches, epoch, batches, seed, feed, loss_val, requests,
                   pulls, attempts, steps, stepped, failed, augvars, layervars>>

\* if b % 10 == 0: print(epoch, b, loss_val); then enumerate moves on.
PrintProgress ==
    /\ pc = "print"
    /\ IF b % 10 = 0
       THEN log' = Append(log, [epoch |-> epoch, b |-> b, loss |-> loss_val])
       ELSE log' = log
    /\ b' = b + 1
    /\ pc' = "for_batch"
    /\ UNCHANGED <<epochs, nbatches, epoch, batches, seed, feed, loss_val, requests,
                   pulls, attempts, steps, stepped, failed, augvars, layervars>>

NextTrain ==
    \/ GetBatches
    \/ Return
    \/ PullBatch
    \/ EndOfBatches
    \/ RunStep
    \/ RunRaises
    \/ PrintProgress

SpecTrain == InitTrain /\ [][NextTrain]_vars

(***************************************************************************)
(* Properties of train_nn, checked under SpecTrain.                        *)
(***************************************************************************)

\* C1: train_nn runs the optimizer step once per pulled batch, tripled by
\* augmentation or not: never more than epochs x nbatches steps, as many steps
\* as pulls whenever no sess.run call is pending, and exactly epochs x nbatches
\* steps when train_nn returns.
C1_OneStepPerBatch ==
    /\ steps <= epochs * nbatches
    /\ (pc \in {"for_epoch", "for_batch", "print", "done"} => steps = pulls)
    /\ (pc = "done" => steps = epochs * nbatches)

\* A run of two epochs of at least two batches has returned, its last batch tripled.
C1_Witness ==
    /\ pc = "done"
    /\ epochs = 2
    /\ nbatches >= 2
    /\ steps = epochs * nbatches
    /\ Ndim(seed.images) = 4
    /\ feed.input_image.shape[1] = 3 * seed.images.shape[1]

\* C5: once a sess.run call has raised, train_nn does nothing more: no step
\* completes (the failed one is not run again), no batch is pulled, no batch
\* sequence is requested, no line is printed, and no printed line is about the
\* batch that failed.
C5_FailurePropagates ==
    [][failed' =>
         /\ steps' = steps
         /\ stepped' = stepped
         /\ pulls' = pulls
         /\ requests' = requests
         /\ log' = log
         /\ (failed => attempts' = attempts)
         /\ \A i \in 1..Len(log') :
              ~(log'[i].epoch = epoch' /\ log'[i].b = b')]_vars

\* A sess.run call raised on the first batch of the second epoch, whose line
\* would have been printed, with batches of that epoch still to come.
C5_Witness ==
    /\ failed
    /\ pc = "raised"
    /\ epoch = 1
    /\ steps >= 1
    /\ attempts = steps + 1
    /\ b % 10 = 0
    /\ batches.left > 0

\* C8: get_batches_fn is called once per epoch: the call for epoch e is made
\* when every batch of the epochs before has been pulled and stepped and before
\* any step of epoch e, the batches stepped are those of generator 1, 2, ... in
\* turn, each generator's in the order it yields them, and a returned run has
\* made exactly `epochs` calls.
C8_FreshSequencePerEpoch ==
    /\ requests <= epochs
    /\ (pc = "done" => requests = epochs)
    /\ (pc = "for_epoch" =>
          /\ requests = epoch
          /\ pulls = epoch * nbatches
          /\ steps = epoch * nbatches)
    /\ (pc \in {"for_batch", "run", "print", "raised"} =>
          /\ requests = epoch + 1
          /\ batches.id = requests)
    /\ Len(stepped) = steps
    /\ \A i \in 1..Len(stepped) :
          stepped[i] = [gen |-> ((i - 1) \div nbatches) + 1,
                        idx |-> (i - 1) % nbatches]

\* Two epochs of two batches each have been run to the end.
C8_Witness ==
    /\ pc = "done"
    /\ epochs = 2
    /\ nbatches = 2
    /\ requests = 2
    /\ Len(stepped) = 4

\* The batch (e, i) is past the print statement of its iteration: it is of an
\* epoch that has ended, or of the one under way and before index b.
PastPrint(e, i) ==
    \/ e < epoch
    \/ (e = epoch /\ pc \in {"for_batch", "run", "print", "raised"} /\ i < b)

\* C9: the lines printed are exactly those of the batches past their print
\* statement whose index within the epoch is a multiple of 10, one line each,
\* with that epoch and index, each printed after the batch's step completed; a
\* returned run has printed epochs x ceil(nbatches / 10) lines, and exactly the
\* line (0, 0) for one epoch of one batch.
C9_ProgressEveryTenth ==
    /\ \A i \in 1..Len(log) :
          /\ log[i].b % 10 = 0
          /\ PastPrint(log[i].epoch, log[i].b)
          /\ \E j \in 1..Len(stepped) :
                stepped[j] = [gen |-> log[i].epoch + 1, idx |-> log[i].b]
          /\ \A j \in 1..Len(log) :
                (log[j].epoch = log[i].epoch /\ log[j].b = log[i].b) => j = i
    /\ \A e \in 0..(epochs - 1) : \A i \in 0..(nbatches - 1) :
          (PastPrint(e, i) /\ i % 10 = 0) =>
             \E j \in 1..Len(log) : log[j].epoch = e /\ log[j].b = i
    /\ (pc = "done" => Len(log) = epochs * ((nbatches + 9) \div 10))
    /\ (pc = "done" /\ epochs = 1 /\ nbatches = 1 =>
          /\ Len(log) = 1
          /\ log[1].epoch = 0
          /\ log[1].b = 0)

\* Two epochs of eleven batches have been run: lines for b = 0 and b = 10 of each.
C9_Witness ==
    /\ pc = "done"
    /\ epochs = 2
    /\ nbatches = 11
    /\ Len(log) = 4
    /\ log[2].epoch = 0
    /\ log[2].b = 10

\* C10: what a sess.run call is fed for the pulled pair is the augmented pair,
\* of three times the batch size, when the pulled images are 4-dimensional and
\* the pulled pair itself otherwise, with keep_prob 1/2 and learning_rate 1/10000.
C10_FeedOfStep ==
    (attempts > 0 /\ pc # "run") =>
        /\ feed.keep_prob = [num |-> 1, den |-> 2]
        /\ feed.learning_rate = [num |-> 1, den |-> 10000]
        /\ IF Ndim(seed.images) = 4
           THEN /\ feed.input_image = augment_data(seed.images, seed.gt_images)[1]
                /\ feed.correct_label = augment_data(seed.images, seed.gt_images)[2]
                /\ feed.input_image.shape[1] = 3 * seed.images.shape[1]
                /\ feed.correct_label.shape[1] = 3 * seed.gt_images.shape[1]
                /\ Len(feed.input_image.data) = 3 * Len(seed.images.data)
           ELSE /\ feed.input_image = seed.images
                /\ feed.correct_label = seed.gt_images

\* A step has been run on a pulled pair of two images, fed as six.
C10_Witness ==
    /\ pc = "print"
    /\ Ndim(seed.images) = 4
    /\ seed.images.shape[1] = 2
    /\ feed.input_image.shape[1] = 6
    /\ feed.input_image # seed.images

(***************************************************************************)
(* Properties of augment_data, checked under SpecAug.                      *)
(***************************************************************************)

\* out is a well-formed array of shape [n, h, w, c].
WellFormed4(out, n, h, w, c) ==
    /\ out.shape = <<n, h, w, c>>
    /\ Len(out.data) = n
    /\ \A i \in 1..n :
          /\ Len(out.data[i]) = h
          /\ \A j \in 1..h :
                /\ Len(out.data[i][j]) = w
                /\ \A k \in 1..w : Len(out.data[i][j][k]) = c

\* out has three times the samples of inp, each of inp's sample shape, and
\* its middle third is inp.
TripledAround(inp, out) ==
    /\ WellFormed4(out, 3 * inp.shape[1], inp.shape[2], inp.shape[3], inp.shape[4])
    /\ \A i \in 1..inp.shape[1] : out.data[inp.shape[1] + i] = inp.data[i]

\* C2: augment_data returns an image batch and a label batch of 3N samples of
\* the unchanged sample shape [H, W, C] whose samples N..2N-1 are the inputs.
C2_TriplesBatch ==
    apc # "call" =>
        /\ TripledAround(images, aug_images)
        /\ TripledAround(gt_images, aug_gt_images)

\* Two distinct 2-row images were augmented.
C2_Witness ==
    /\ apc = "augmented"
    /\ images.shape[1] = 2
    /\ images.shape[2] = 2
    /\ images.data[1] # images.data[2]
    /\ aug_images.shape[1] = 6
    /\ aug_images.data[1] # images.data[1]

\* out is [inp with the height axis reversed, inp, inp with the width axis
\* reversed] along the batch axis, element by element.
FlipsInOrder(inp, out) ==
    LET n == inp.shape[1]
        h == inp.shape[2]
        w == inp.shape[3]
        c == inp.shape[4]
    IN  /\ Len(out.data) = 3 * n
        /\ \A i \in 1..n : \A j \in 1..h : \A k \in 1..w : \A l \in 1..c :
              /\ out.data[i][j][k][l] = inp.data[i][h + 1 - j][k][l]
              /\ out.data[n + i][j][k][l] = inp.data[i][j][k][l]
              /\ out.data[2 * n + i][j][k][l] = inp.data[i][j][w + 1 - k][l]

\* C6: the result of augment_data is [vertical flip, original, horizontal
\* flip] along the batch axis for the images and for the labels, so the label
\* at an index is the same transform of the same source sample as the image.
C6_FlipOrder ==
    apc # "call" =>
        /\ FlipsInOrder(images, aug_images)
        /\ FlipsInOrder(gt_images, aug_gt_images)

\* An image of two rows and two columns whose two flips differ from each other
\* and from the image was augmented.
C6_Witness ==
    /\ apc = "augmented"
    /\ images.shape = <<1, 2, 2, 1>>
    /\ aug_images.data[1] # aug_images.data[2]
    /\ aug_images.data[3] # aug_images.data[2]
    /\ aug_images.data[1] # aug_images.data[3]
    /\ gt_images # images

\* C7: reversing the width axis of hf_images gives back images.
C7_HFlipInvolution ==
    apc = "reflipped" => reflipped = images

\* Two images that their horizontal flip changed were flipped back.
C7_Witness ==
    /\ apc = "reflipped"
    /\ images.shape[1] = 2
    /\ images.shape[3] = 2
    /\ aug_images.data[5] # images.data[1]
    /\ aug_images.data[6] # images.data[2]
    /\ reflipped = images

(***************************************************************************)
(* Properties of layers, checked under SpecLayers.                         *)
(***************************************************************************)

\* The feature maps have one batch size, and layer4 is twice and layer3 four
\* times layer7 in height and in width, as the maps of one backbone are.
ValidTriple ==
    /\ vgg_layer3_out[1] = vgg_layer7_out[1]
    /\ vgg_layer4_out[1] = vgg_layer7_out[1]
    /\ vgg_layer4_out[2] = 2 * vgg_layer7_out[2]
    /\ vgg_layer4_out[3] = 2 * vgg_layer7_out[3]
    /\ vgg_layer3_out[2] = 2 * vgg_layer4_out[2]
    /\ vgg_layer3_out[3] = 2 * vgg_layer4_out[3]

\* C3 as stated: the heat-map of a valid triple is 8 times layer7 in height
\* and width and has num_classes channels.
C3_AsStated ==
    (lpc = "built" /\ ValidTriple) =>
        /\ graph.class_heatmap[2] = 8 * vgg_layer7_out[2]
        /\ graph.class_heatmap[3] = 8 * vgg_layer7_out[3]
        /\ graph.class_heatmap[4] = num_classes

\* C3 amended: layers builds the heat-map of every valid triple, and it is 32
\* times layer7 (8 times layer3) in height and width, of the triple's batch
\* size, with num_classes channels.
C3_HeatmapShape ==
    (lpc # "call" /\ ValidTriple) =>
        /\ lpc = "built"
        /\ graph.class_heatmap[1] = vgg_layer7_out[1]
        /\ graph.class_heatmap[2] = 32 * vgg_layer7_out[2]
        /\ graph.class_heatmap[3] = 32 * vgg_layer7_out[3]
        /\ graph.class_heatmap[2] = 8 * vgg_layer3_out[2]
        /\ graph.class_heatmap[3] = 8 * vgg_layer3_out[3]
        /\ graph.class_heatmap[4] = num_classes

\* The heat-map of a valid triple of batch size 2 with a 2-row layer7 was built.
C3_Witness ==
    /\ lpc = "built"
    /\ ValidTriple
    /\ vgg_layer7_out[1] = 2
    /\ vgg_layer7_out[2] = 2
    /\ num_classes = 2
    /\ graph.class_heatmap = <<2, 64, 32, 2>>

\* layers was called with the feature maps of a 160x576 image and two classes.
KittiCall ==
    /\ <<vgg_layer3_out, vgg_layer4_out, vgg_layer7_out>> = KittiFeatureMaps
    /\ num_classes = 2

\* C4: for two classes and feature maps [1,20,72,256], [1,10,36,512] and
\* [1,5,18,4096], layers builds a heat-map of shape [1,160,576,2]: the three
\* transposed convolutions double, double and multiply by 8 the height and
\* width, and each fusion adds two maps of one shape.
C4_KittiScenario ==
    (lpc # "call" /\ KittiCall) =>
        /\ lpc = "built"
        /\ graph.class_heatmap = <<1, 160, 576, 2>>
        /\ graph.layer7_up = <<1, 10, 36, 2>>
        /\ graph.layer4_up = <<1, 20, 72, 2>>
        /\ graph.layer4_fcn = graph.layer7_up
        /\ graph.layer3_fcn = graph.layer4_up
        /\ graph.layer7_up[2] = 2 * graph.layer7_fcn[2]
        /\ graph.layer7_up[3] = 2 * graph.layer7_fcn[3]
        /\ graph.layer4_up[2] = 2 * graph.layer4_skip[2]
        /\ graph.layer4_up[3] = 2 * graph.layer4_skip[3]
        /\ graph.class_heatmap[2] = 8 * graph.layer3_skip[2]
        /\ graph.class_heatmap[3] = 8 * graph.layer3_skip[3]

\* The graph of that call was built.
C4_Witness ==
    /\ lpc = "built"
    /\ KittiCall
    /\ graph.layer3_skip = <<1, 20, 72, 2>>

====
